---- MODULE Spec2Model ----
(***************************************************************************)
(* Reconciliation core of the Ourbit connector: the push listener          *)
(* (_user_stream_event_listener), the REST operations (_place_cancel,      *)
(* _request_order_status, _all_trade_updates_for_order, _update_balances)  *)
(* and the order tracker they drive.  The tracker (ClientOrderTracker,     *)
(* InFlightOrder) and the base class that calls the REST operations        *)
(* (ExchangePyBase) are not among the connector's files; their operators   *)
(* follow the rules of the specification, sections 3, 4.3 and 7.           *)
(***************************************************************************)
EXTENDS Integers, Sequences, FiniteSets, TLC

(***************************************************************************)
(* Bounds of the model.                                                    *)
(***************************************************************************)
MaxTime == 1
MaxTrades == 2
MaxAmount == 1
MaxFrames == 3
MaxCalls == 2

None == "None"

Times == 0..MaxTime
VenueTrades == 1..MaxTrades

(***************************************************************************)
(* JSON scalars as the venue sends them: a number or a string.  str() and  *)
(* Decimal(str()) are modelled by what they do to each kind.               *)
(***************************************************************************)
JsonInt(n) == [kind |-> "int", int |-> n, str |-> ""]
JsonStr(s) == [kind |-> "str", int |-> 0, str |-> s]
Missing == [kind |-> "missing", int |-> 0, str |-> ""]

\* Python str(x) of a JSON scalar.
Str(j) == IF j.kind = "int" THEN ToString(j.int) ELSE j.str

\* Python truthiness of dict.get(key): a missing key gives None.
Truthy(j) ==
    \/ j.kind = "int" /\ j.int # 0
    \/ j.kind = "str" /\ j.str # ""

\* Both spellings of a venue number.
JsonIds(n) == {JsonInt(n), JsonStr(ToString(n))}

(***************************************************************************)
(* Order states and the venue's status vocabulary.                         *)
(***************************************************************************)
OrderStates ==
    {"PENDING_CREATE", "OPEN", "PARTIALLY_FILLED", "FILLED", "PENDING_CANCEL", "CANCELED", "FAILED"}

TerminalStates == {"FILLED", "CANCELED", "FAILED"}

\* CONSTANTS.ORDER_STATE
ORDER_STATE ==
    [s \in {"NEW", "PARTIALLY_FILLED", "FILLED", "CANCELED", "PENDING_CANCEL", "REJECTED", "EXPIRED"} |->
        CASE s = "NEW" -> "OPEN"
          [] s = "PARTIALLY_FILLED" -> "PARTIALLY_FILLED"
          [] s = "FILLED" -> "FILLED"
          [] s = "CANCELED" -> "CANCELED"
          [] s = "PENDING_CANCEL" -> "PENDING_CANCEL"
          [] s = "REJECTED" -> "FAILED"
          [] s = "EXPIRED" -> "CANCELED"]

\* Status strings the venue may send: the table's keys and one outside it.
VenueStatuses == DOMAIN ORDER_STATE \cup {"UNKNOWN"}

(***************************************************************************)
(* The rank of a state in the monotone order of the specification,         *)
(* PENDING_CREATE < OPEN < PARTIALLY_FILLED < {FILLED, CANCELED, FAILED}.  *)
(* PENDING_CANCEL, which the specification lists as a non-terminal state   *)
(* and does not rank, sits with PARTIALLY_FILLED below the terminal states.*)
(***************************************************************************)
Rank(s) ==
    CASE s = "PENDING_CREATE" -> 0
      [] s = "OPEN" -> 1
      [] s \in {"PARTIALLY_FILLED", "PENDING_CANCEL"} -> 2
      [] OTHER -> 3

(***************************************************************************)
(* Venue data: the trades of the order.  Trade t fills TradeQty(t) of the  *)
(* base asset at price TradePrice(t).                                      *)
(***************************************************************************)
TradeQty(t) == t
TradePrice(t) == t + 1

ExchangeOrderIds == {1, 2}
ClientOrderIds == {"c1", "c9"}

\* Partial maps (Python dicts).
Put(m, k, v) == [x \in (DOMAIN m) \cup {k} |-> IF x = k THEN v ELSE m[x]]
Del(m, k) == [x \in (DOMAIN m) \ {k} |-> m[x]]
EmptyMap == [x \in {} |-> 0]

VARIABLES
    order,        \* the InFlightOrder of client order id "c1"
    fillable,     \* the order is in all_fillable_orders
    updatable,    \* the order is in all_updatable_orders
    push_ids,     \* venue trade -> trade_id the push path gave it (None: not pushed)
    rest_ids,     \* venue trade -> trade_id the REST backfill gave it
    last          \* the operation that led to this state, and what it returned

ordervars == <<order, fillable, updatable, push_ids, rest_ids, last>>

VARIABLES
    account_balances,            \* _account_balances: asset -> total
    account_available_balances,  \* _account_available_balances: asset -> free
    resync,                      \* per _update_balances call: where it is, its local_asset_names,
                                 \* and whether its request overlapped with another call's
    lastb                        \* the balance operation that led to this state

balancevars == <<account_balances, account_available_balances, resync, lastb>>

VARIABLES
    inbox,      \* the queue _iter_user_event_queue reads: decoded events, oldest first
    arrived,    \* frames the push transport has delivered so far
    dropped,    \* frames dropped on a decode error
    lastf,      \* the frame delivered last
    decoded,    \* what decompress_ws_message made of it
    listener,   \* where _user_stream_event_listener is
    logged,     \* errors the listener has logged
    outcomes    \* per event the listener took, in order: how it ended

streamvars == <<inbox, arrived, dropped, lastf, decoded, listener, logged, outcomes>>

VARIABLES
    rate_limits,  \* the table the throttler was built with
    buckets,      \* limit id -> current_usage and the time since window_start
    grants,       \* weight granted per limit id in the latest ticks, newest first
    callers,      \* caller -> calls left, the id it waits for, calls completed
    lastq         \* the acquisition attempted last

throttlevars == <<rate_limits, buckets, grants, callers, lastq>>


(***************************************************************************)
(* Conversions of the venue's fields.                                      *)
(***************************************************************************)
Digits == 0..9
Invalid == 0 - 1

\* Decimal(s) of a string: the number it spells, Invalid when it spells none
\* (decimal.InvalidOperation).
Numerals == [s \in {ToString(n) : n \in Digits} |-> CHOOSE n \in Digits : ToString(n) = s]

DecimalOf(s) == IF s \in DOMAIN Numerals THEN Numerals[s] ELSE Invalid

\* int(x) * 1e-3: venue milliseconds to the tracker's seconds.
MsToSeconds(j) == j.int \div 1000

\* A venue time of s seconds, as the venue sends it.
VenueMs(s) == JsonInt(1000 * s)

(***************************************************************************)
(* The order tracker (ClientOrderTracker over one InFlightOrder).          *)
(***************************************************************************)
IsTerminal(s) == s \in TerminalStates

NewOrder ==
    [client_order_id |-> "c1",
     exchange_order_id |-> None,
     current_state |-> "PENDING_CREATE",
     last_update_timestamp |-> 0,
     order_fills |-> EmptyMap,
     executed_amount_base |-> 0,
     executed_amount_quote |-> 0]

OrderUpdate(new_state, ts, xid) ==
    [new_state |-> new_state, update_timestamp |-> ts, exchange_order_id |-> xid]

\* A slip: the venue id of every applied update written over the order's.
ProcessOrderUpdateOverwritingId(o, upd) ==
    IF ~IsTerminal(o.current_state)
        /\ upd.update_timestamp >= o.last_update_timestamp
        /\ Rank(upd.new_state) >= Rank(o.current_state)
        THEN [o EXCEPT !.current_state = upd.new_state,
                       !.last_update_timestamp = upd.update_timestamp,
                       !.exchange_order_id = upd.exchange_order_id]
        ELSE o

\* An update is dropped when the order is terminal, when it is older than the
\* last applied timestamp, or when its state ranks below the current one.
AcceptsUpdate(o, upd) ==
    /\ ~IsTerminal(o.current_state)
    /\ upd.update_timestamp >= o.last_update_timestamp
    /\ Rank(upd.new_state) >= Rank(o.current_state)

ProcessOrderUpdate(o, upd) ==
    IF AcceptsUpdate(o, upd)
        THEN [o EXCEPT !.current_state = upd.new_state,
                       !.last_update_timestamp = upd.update_timestamp,
                       !.exchange_order_id =
                            IF @ = None THEN upd.exchange_order_id ELSE @]
        ELSE o

\* A trade id already in the order's ledger is a no-op.
ProcessTradeUpdate(o, tu) ==
    IF tu.trade_id \in DOMAIN o.order_fills
        THEN o
        ELSE [o EXCEPT !.order_fills = Put(@, tu.trade_id, tu.fill_base_amount),
                       !.executed_amount_base = @ + tu.fill_base_amount,
                       !.executed_amount_quote = @ + tu.fill_quote_amount]

\* process_order_not_found: the order is resolved to a terminal state locally;
\* an order already terminal keeps its state.
ProcessOrderNotFound(o) ==
    IF IsTerminal(o.current_state) THEN o ELSE [o EXCEPT !.current_state = "FAILED"]

(***************************************************************************)
(* Venue error messages, as words; the literal the connector looks for.    *)
(***************************************************************************)
NotFoundPhrase == <<"Order", "does", "not", "exist">>

ErrorMessages ==
    { <<"Order", "does", "not", "exist">>,
      <<"code", "-2011", "Order", "does", "not", "exist", "now">>,
      <<"Too", "many", "requests">>,
      <<"Order", "does", "exist">> }

\* Python's  needle in haystack  on strings.
Contains(needle, hay) ==
    \E i \in 0..(Len(hay) - Len(needle)) :
        \A k \in 1..Len(needle) : hay[i + k] = needle[k]

\* A slip: the whole message compared with the literal.
IsExactlyOrderNotFound(msg) == msg = NotFoundPhrase

IsOrderNotFoundDuringStatusUpdateError(msg) == Contains(NotFoundPhrase, msg)

IsOrderNotFoundDuringCancelationError(msg) == Contains(NotFoundPhrase, msg)


(***************************************************************************)
(* What the venue sends.                                                   *)
(***************************************************************************)
\* executionReport events: C client order id, X status, E event time (ms),
\* i venue order id, t trade id, l last filled quantity, L last filled price;
\* fee says whether the fee fields n and N are present.
ExecutionReport(c, x, e, n, v, asString, f) ==
    [C |-> c, X |-> x, E |-> VenueMs(e),
     i |-> IF asString THEN JsonStr(ToString(n)) ELSE JsonInt(n),
     t |-> IF asString THEN JsonStr(ToString(v)) ELSE JsonInt(v),
     l |-> JsonStr(ToString(TradeQty(v))), L |-> JsonStr(ToString(TradePrice(v))),
     trade |-> v, fee |-> f]

FillStatuses == {"PARTIALLY_FILLED", "FILLED"}

\* The id the venue gave the tracked order.
VenueOrderId == CHOOSE n \in ExchangeOrderIds : \A m \in ExchangeOrderIds : n <= m

\* Another order's id at the venue.
OtherOrderId == CHOOSE n \in ExchangeOrderIds : n # VenueOrderId

\* Reports of a fill, in both spellings, and without the fee fields; reports
\* of any other status; reports for an order that is not tracked; reports
\* that carry another venue order id.
ExecutionReports ==
    { ExecutionReport("c1", x, e, VenueOrderId, v, s, TRUE) :
        x \in FillStatuses, e \in Times, v \in VenueTrades, s \in BOOLEAN }
    \cup { ExecutionReport("c1", x, e, VenueOrderId, v, FALSE, FALSE) :
        x \in FillStatuses, e \in Times, v \in VenueTrades }
    \cup { ExecutionReport("c1", x, e, VenueOrderId, 1, FALSE, TRUE) :
        x \in VenueStatuses \ FillStatuses, e \in Times }
    \cup { ExecutionReport("c9", x, 0, VenueOrderId, 1, FALSE, TRUE) : x \in VenueStatuses }
    \cup { ExecutionReport("c9", "FILLED", 0, VenueOrderId, 1, FALSE, FALSE) }
    \cup { ExecutionReport("c1", x, e, OtherOrderId, 1, FALSE, TRUE) :
        x \in {"NEW", "FILLED"}, e \in Times }

\* A trade of the myTrades response.
RestTrade(v, asString, xid) ==
    [id |-> IF asString THEN JsonStr(ToString(v)) ELSE JsonInt(v),
     orderId |-> JsonStr(xid),
     qty |-> JsonStr(ToString(TradeQty(v))),
     price |-> JsonStr(ToString(TradePrice(v))),
     trade |-> v]

\* The trades of a set, in the venue's order.
RECURSIVE TradeList(_, _, _)
TradeList(vs, asString, xid) ==
    IF vs = {} THEN <<>>
    ELSE LET v == CHOOSE x \in vs : \A y \in vs : x <= y
         IN <<RestTrade(v, asString, xid)>> \o TradeList(vs \ {v}, asString, xid)

\* Responses to GET /api/v3/order.
StatusResponses ==
    { [kind |-> "ok", status |-> x, orderId |-> i, updateTime |-> VenueMs(e), msg |-> <<>>] :
        x \in VenueStatuses, i \in {JsonInt(VenueOrderId)}, e \in Times }
    \cup { [kind |-> "ok", status |-> x, orderId |-> JsonInt(OtherOrderId),
             updateTime |-> VenueMs(e), msg |-> <<>>] :
        x \in {"NEW", "FILLED"}, e \in Times }
    \cup { [kind |-> "error", status |-> "", orderId |-> Missing, updateTime |-> VenueMs(0), msg |-> m] :
        m \in ErrorMessages }

\* Responses to POST /api/v3/order: the venue's id of the new order, in either
\* spelling, and its transact time; or a venue error.
PlaceResponses ==
    { [kind |-> "ok", orderId |-> i, transactTime |-> VenueMs(e), msg |-> <<>>] :
        i \in JsonIds(VenueOrderId), e \in Times }
    \cup { [kind |-> "error", orderId |-> Missing, transactTime |-> VenueMs(0), msg |-> m] :
        m \in {<<"Too", "many", "requests">>} }

\* Responses to DELETE /api/v3/order: a JSON object with or without an
\* orderId, a body that is no object, or a venue error.
CancelResponses ==
    { [kind |-> "dict", orderId |-> i, msg |-> <<>>] :
        i \in {Missing, JsonInt(0), JsonStr("")} \cup UNION {JsonIds(n) : n \in ExchangeOrderIds} }
    \cup { [kind |-> "list", orderId |-> Missing, msg |-> <<>>] }
    \cup { [kind |-> "error", orderId |-> Missing, msg |-> m] : m \in ErrorMessages }

(***************************************************************************)
(* _user_stream_event_listener, executionReport branch.                    *)
(***************************************************************************)
\* trade_id=str(event_message["t"])
PushTradeId(ev) == Str(ev.t)

\* A slip: the fill amount read from the price field L.
PushFillBaseAmountFromPrice(ev) == DecimalOf(Str(ev.L))

\* fill_base_amount=Decimal(str(event_message["l"]))
PushFillBaseAmount(ev) == DecimalOf(Str(ev.l))

PushTradeUpdate(ev) ==
    [trade_id |-> PushTradeId(ev),
     exchange_order_id |-> Str(ev.i),
     fill_base_amount |-> PushFillBaseAmount(ev),
     fill_quote_amount |-> DecimalOf(Str(ev.l)) * DecimalOf(Str(ev.L)),
     fill_price |-> DecimalOf(Str(ev.L)),
     fill_timestamp |-> MsToSeconds(ev.E)]

\* A slip: the implicit OPEN tested against the wrong current state.
PushImplicitOpenWrongState(o, ev) ==
    /\ ORDER_STATE[ev.X] = "FILLED"
    /\ o.current_state = "OPEN"

\* The implicit OPEN of a report for an order still PENDING_CREATE.
PushNeedsImplicitOpen(o, ev) ==
    /\ ORDER_STATE[ev.X] = "FILLED"
    /\ o.current_state = "PENDING_CREATE"

\* A slip: the handler writes the order's state itself, past the tracker's
\* rank rule.
PushStatusUpdateUnranked(o, ev) ==
    IF ~IsTerminal(o.current_state) /\ MsToSeconds(ev.E) >= o.last_update_timestamp
        THEN [o EXCEPT !.current_state = ORDER_STATE[ev.X],
                       !.last_update_timestamp = MsToSeconds(ev.E)]
        ELSE o

\* A slip: the handler writes the order's state and timestamp itself, past the
\* tracker's timestamp rule.
PushStatusUpdateUnordered(o, ev) ==
    IF ~IsTerminal(o.current_state) /\ Rank(ORDER_STATE[ev.X]) >= Rank(o.current_state)
        THEN [o EXCEPT !.current_state = ORDER_STATE[ev.X],
                       !.last_update_timestamp = MsToSeconds(ev.E)]
        ELSE o

\* The status update of the report, handed to the tracker.
PushStatusUpdate(o, ev) ==
    ProcessOrderUpdate(o, OrderUpdate(ORDER_STATE[ev.X], MsToSeconds(ev.E), Str(ev.i)))

\* A slip: the status update handed to the tracker before the trade update.
HandleExecutionReportStatusFirst(o, ev, inFillable, inUpdatable) ==
    LET found1 == inFillable /\ ev.C = o.client_order_id
        isFill == found1 /\ ev.X \in FillStatuses
        o1 == IF isFill /\ PushNeedsImplicitOpen(o, ev)
                THEN ProcessOrderUpdate(o, OrderUpdate("OPEN", MsToSeconds(ev.E), Str(ev.i)))
                ELSE o
        feeRaises == isFill /\ ~ev.fee
        traded == isFill /\ ev.fee
        found2 == inUpdatable /\ ev.C = o.client_order_id
        tableRaises == ~feeRaises /\ found2 /\ ev.X \notin DOMAIN ORDER_STATE
        o2 == IF ~feeRaises /\ found2 /\ ~tableRaises /\ ORDER_STATE[ev.X] # "PENDING_CREATE"
                THEN PushStatusUpdate(o1, ev)
                ELSE o1
        o3 == IF traded THEN ProcessTradeUpdate(o2, PushTradeUpdate(ev)) ELSE o2
    IN [order |-> o3,
        raised |-> feeRaises \/ tableRaises,
        found |-> found1 \/ found2,
        traded |-> traded,
        fill_state |-> IF traded THEN o2.current_state ELSE None]

\* The whole handling of one executionReport: the order afterwards, whether
\* the handler raised (logged, then a pause), whether a trade update reached
\* the tracker and the state the order was in when it did.
HandleExecutionReport(o, ev, inFillable, inUpdatable) ==
    LET found1 == inFillable /\ ev.C = o.client_order_id
        isFill == found1 /\ ev.X \in FillStatuses
        o1 == IF isFill /\ PushNeedsImplicitOpen(o, ev)
                THEN ProcessOrderUpdate(o, OrderUpdate("OPEN", MsToSeconds(ev.E), Str(ev.i)))
                ELSE o
        feeRaises == isFill /\ ~ev.fee
        traded == isFill /\ ev.fee
        o2 == IF traded THEN ProcessTradeUpdate(o1, PushTradeUpdate(ev)) ELSE o1
        found2 == inUpdatable /\ ev.C = o.client_order_id
        tableRaises == ~feeRaises /\ found2 /\ ev.X \notin DOMAIN ORDER_STATE
        o3 == IF ~feeRaises /\ found2 /\ ~tableRaises /\ ORDER_STATE[ev.X] # "PENDING_CREATE"
                THEN PushStatusUpdate(o2, ev)
                ELSE o2
    IN [order |-> o3,
        raised |-> feeRaises \/ tableRaises,
        found |-> found1 \/ found2,
        traded |-> traded,
        fill_state |-> IF traded THEN o1.current_state ELSE None]


(***************************************************************************)
(* _all_trade_updates_for_order and its caller.                            *)
(***************************************************************************)
\* A slip: the trade keyed by the order's id.
RestTradeIdFromOrderId(trade) == Str(trade.orderId)

\* trade_id=str(trade["id"])
RestTradeId(trade) == Str(trade.id)

RestTradeUpdate(trade) ==
    [trade_id |-> RestTradeId(trade),
     exchange_order_id |-> Str(trade.orderId),
     fill_base_amount |-> DecimalOf(Str(trade.qty)),
     fill_quote_amount |-> DecimalOf(Str(trade.price)) * DecimalOf(Str(trade.qty)),
     fill_price |-> DecimalOf(Str(trade.price)),
     fill_timestamp |-> 0]

\* The trade updates built from the response; none, and no request, for an
\* order without a venue id.
AllTradeUpdatesForOrder(o, fills_data) ==
    IF o.exchange_order_id # None
        THEN [k \in 1..Len(fills_data) |-> RestTradeUpdate(fills_data[k])]
        ELSE <<>>

\* The caller hands every returned trade update to the tracker.
RECURSIVE ApplyTradeUpdates(_, _)
ApplyTradeUpdates(o, tus) ==
    IF tus = <<>> THEN o
    ELSE ApplyTradeUpdates(ProcessTradeUpdate(o, Head(tus)), Tail(tus))

(***************************************************************************)
(* _request_order_status and its caller.                                   *)
(***************************************************************************)
\* new_state of the fetched status; PENDING_CREATE is reported as OPEN.
StatusNewState(status) ==
    IF ORDER_STATE[status] = "PENDING_CREATE" THEN "OPEN" ELSE ORDER_STATE[status]

\* A slip: the implicit OPEN made on any fill indication.
StatusImplicitOpenOnAnyFill(o, new_state) ==
    /\ new_state \in {"PARTIALLY_FILLED", "FILLED"}
    /\ o.current_state = "PENDING_CREATE"

StatusNeedsImplicitOpen(o, new_state) ==
    /\ new_state = "FILLED"
    /\ o.current_state = "PENDING_CREATE"

\* The order after the implicit OPEN, if any, and the update returned.
RequestOrderStatus(o, resp) ==
    LET new_state == StatusNewState(resp.status)
        ts == MsToSeconds(resp.updateTime)
        xid == Str(resp.orderId)
        o1 == IF StatusNeedsImplicitOpen(o, new_state)
                THEN ProcessOrderUpdate(o, OrderUpdate("OPEN", ts, xid))
                ELSE o
    IN [order |-> o1, update |-> OrderUpdate(new_state, ts, xid)]

\* A slip: a status the table does not hold taken for a failure of the order.
PollOrderStatusUnknownFails(o, resp) ==
    IF resp.kind = "error"
        THEN IF IsOrderNotFoundDuringStatusUpdateError(resp.msg)
                THEN [order |-> ProcessOrderNotFound(o), result |-> "not_found"]
                ELSE [order |-> o, result |-> "raised"]
    ELSE IF resp.status \notin DOMAIN ORDER_STATE
        THEN [order |-> ProcessOrderNotFound(o), result |-> "raised"]
    ELSE LET r == RequestOrderStatus(o, resp)
         IN [order |-> ProcessOrderUpdate(r.order, r.update), result |-> "ok"]

\* The caller: a returned update goes to the tracker; an error the connector
\* classifies as order-not-found goes to the tracker's not-found path; any
\* other error, an unknown status included, propagates.
PollOrderStatus(o, resp) ==
    IF resp.kind = "error"
        THEN IF IsOrderNotFoundDuringStatusUpdateError(resp.msg)
                THEN [order |-> ProcessOrderNotFound(o), result |-> "not_found"]
                ELSE [order |-> o, result |-> "raised"]
    ELSE IF resp.status \notin DOMAIN ORDER_STATE
        THEN [order |-> o, result |-> "raised"]
    ELSE LET r == RequestOrderStatus(o, resp)
         IN [order |-> ProcessOrderUpdate(r.order, r.update), result |-> "ok"]

(***************************************************************************)
(* _place_order and its caller.                                            *)
(***************************************************************************)
\* A slip: the placement itself hands an OPEN update to the tracker.
PlaceOrderAssertingOpen(o, resp) ==
    [order |-> ProcessOrderUpdate(o,
                    OrderUpdate("OPEN", MsToSeconds(resp.transactTime), Str(resp.orderId))),
     ret |-> <<Str(resp.orderId), MsToSeconds(resp.transactTime)>>]

\* _place_order on a success response: (o_id, transact_time) is returned and
\* the tracker is not called.
PlaceOrder(o, resp) ==
    [order |-> o,
     ret |-> <<Str(resp.orderId), MsToSeconds(resp.transactTime)>>]

\* The caller: the returned id is recorded on the order unless it has one; an
\* error of the request is raised.
PlaceOrderAndRecord(o, resp) ==
    IF resp.kind = "error"
        THEN [order |-> o, ret |-> <<>>, result |-> "raised"]
        ELSE LET r == PlaceOrder(o, resp)
             IN [order |-> [r.order EXCEPT !.exchange_order_id =
                                IF @ = None THEN r.ret[1] ELSE @],
                 ret |-> r.ret, result |-> "ok"]

(***************************************************************************)
(* _place_cancel and its caller.                                           *)
(***************************************************************************)
\* A slip: any JSON object taken for an acknowledgment.
CancelAcknowledgedAnyDict(resp) == resp.kind = "dict"

\* isinstance(cancel_result, dict) and cancel_result.get("orderId")
CancelAcknowledged(resp) == resp.kind = "dict" /\ Truthy(resp.orderId)

\* A slip: the acknowledged order marked CANCELED on the order itself, past
\* the tracker.
PlaceCancelUnchecked(o, resp, now) ==
    IF CancelAcknowledged(resp)
        THEN [order |-> [o EXCEPT !.current_state = "CANCELED"], result |-> "True"]
        ELSE [order |-> ProcessOrderNotFound(o), result |-> "False"]

\* _place_cancel on a response: the order afterwards and the value returned.
PlaceCancel(o, resp, now) ==
    IF CancelAcknowledged(resp)
        THEN [order |-> ProcessOrderUpdate(o, OrderUpdate("CANCELED", now, o.exchange_order_id)),
              result |-> "True"]
        ELSE [order |-> ProcessOrderNotFound(o), result |-> "False"]

\* The caller: an error of the request leaves _place_cancel as an exception;
\* one the connector classifies as order-not-found is resolved through the
\* tracker's not-found path and not raised, any other is raised.
ExecuteOrderCancel(o, resp, now) ==
    IF resp.kind = "error"
        THEN IF IsOrderNotFoundDuringCancelationError(resp.msg)
                THEN [order |-> ProcessOrderNotFound(o), result |-> "not_found"]
                ELSE [order |-> o, result |-> "raised"]
        ELSE PlaceCancel(o, resp, now)


(***************************************************************************)
(* The state machine of one order.                                         *)
(***************************************************************************)
\* What is recorded of the operation that led to a state: its name, the
\* status string and the client order id it carried, the order's state before it, what it returned
\* (or that it raised), the state the order was in when a trade update of a
\* push event reached the tracker, whether that trade id was already in the
\* ledger, whether the status update it submitted was older than the order's
\* last applied timestamp, the venue order id the event or response carried, the
\* venue's error message, the tuple a placement returned or the new state of
\* the update a status query returned, and the state the order was in when
\* the status query returned, and the trade id of the trade update a push
\* event handed to the tracker.
LastOf(op, pre) ==
    [op |-> op, X |-> "", C |-> "", pre |-> pre, result |-> "ok", fill_state |-> None,
     dup |-> FALSE, stale |-> FALSE, resp |-> Missing, err |-> <<>>, ret |-> <<>>,
     at_return |-> None, trade_id |-> None]

InitOrders ==
    /\ order = NewOrder
    /\ fillable = TRUE
    /\ updatable = TRUE
    /\ push_ids = [v \in VenueTrades |-> None]
    /\ rest_ids = [v \in VenueTrades |-> None]
    /\ last = LastOf("init", "PENDING_CREATE")

\* A slip: the order of a report looked up among all orders ever tracked, not
\* in the fill-tracking and state-update sets.
PushExecutionReportAnyOrder ==
    \E ev \in ExecutionReports :
        LET r == HandleExecutionReport(order, ev, TRUE, TRUE)
        IN /\ order' = r.order
           /\ push_ids' = IF r.traded THEN [push_ids EXCEPT ![ev.trade] = PushTradeId(ev)]
                                      ELSE push_ids
           /\ last' = [LastOf("push", order.current_state) EXCEPT
                        !.X = ev.X,
                        !.C = ev.C,
                        !.resp = ev.i,
                        !.result = IF r.raised THEN "raised"
                                   ELSE IF r.found THEN "ok" ELSE "ignored",
                        !.fill_state = r.fill_state,
                        !.trade_id = IF r.traded THEN PushTradeId(ev) ELSE None,
                        !.dup = r.traded /\ PushTradeId(ev) \in DOMAIN order.order_fills,
                        !.stale = /\ updatable /\ ev.C = order.client_order_id /\ ~r.raised
                                  /\ MsToSeconds(ev.E) < order.last_update_timestamp]
           /\ UNCHANGED <<fillable, updatable, rest_ids, balancevars, streamvars, throttlevars>>

\* The listener takes one executionReport from the queue and handles it.
PushExecutionReport ==
    \E ev \in ExecutionReports :
        LET r == HandleExecutionReport(order, ev, fillable, updatable)
        IN /\ order' = r.order
           /\ push_ids' = IF r.traded THEN [push_ids EXCEPT ![ev.trade] = PushTradeId(ev)]
                                      ELSE push_ids
           /\ last' = [LastOf("push", order.current_state) EXCEPT
                        !.X = ev.X,
                        !.C = ev.C,
                        !.resp = ev.i,
                        !.result = IF r.raised THEN "raised"
                                   ELSE IF r.found THEN "ok" ELSE "ignored",
                        !.fill_state = r.fill_state,
                        !.trade_id = IF r.traded THEN PushTradeId(ev) ELSE None,
                        !.dup = r.traded /\ PushTradeId(ev) \in DOMAIN order.order_fills,
                        !.stale = /\ updatable /\ ev.C = order.client_order_id /\ ~r.raised
                                  /\ MsToSeconds(ev.E) < order.last_update_timestamp]
           /\ UNCHANGED <<fillable, updatable, rest_ids, balancevars, streamvars, throttlevars>>

\* A fill backfill of the tracked order returns and is applied.
BackfillTrades ==
    /\ fillable
    /\ \E vs \in SUBSET VenueTrades, asString \in BOOLEAN :
        LET fills_data == TradeList(vs, asString, order.exchange_order_id)
            tus == AllTradeUpdatesForOrder(order, fills_data)
        IN /\ order' = ApplyTradeUpdates(order, tus)
           /\ rest_ids' = [v \in VenueTrades |->
                            IF \E k \in 1..Len(tus) : fills_data[k].trade = v
                                THEN tus[CHOOSE k \in 1..Len(tus) : fills_data[k].trade = v].trade_id
                                ELSE rest_ids[v]]
           /\ last' = LastOf("backfill", order.current_state)
           /\ UNCHANGED <<fillable, updatable, push_ids, balancevars, streamvars, throttlevars>>

\* The request of a fill backfill fails: _all_trade_updates_for_order has no
\* handler, the error leaves it as it came.
BackfillFail ==
    /\ fillable
    /\ order.exchange_order_id # None
    /\ \E m \in ErrorMessages :
        last' = [LastOf("backfill", order.current_state) EXCEPT
                    !.result = "raised", !.err = m]
    /\ UNCHANGED <<order, fillable, updatable, push_ids, rest_ids, balancevars, streamvars, throttlevars>>

\* A status query of the tracked order returns.
StatusPoll ==
    /\ updatable
    /\ \E resp \in StatusResponses :
        LET r == PollOrderStatus(order, resp)
        IN /\ order' = r.order
           /\ last' = [LastOf("poll", order.current_state) EXCEPT
                        !.X = resp.status,
                        !.resp = resp.orderId,
                        !.result = r.result,
                        !.stale = /\ r.result = "ok"
                                  /\ MsToSeconds(resp.updateTime) < order.last_update_timestamp,
                        !.err = resp.msg,
                        !.ret = IF r.result = "ok"
                                    THEN <<RequestOrderStatus(order, resp).update.new_state>>
                                    ELSE <<>>,
                        !.at_return = IF r.result = "ok"
                                    THEN RequestOrderStatus(order, resp).order.current_state
                                    ELSE None]
           /\ UNCHANGED <<fillable, updatable, push_ids, rest_ids, balancevars, streamvars, throttlevars>>

\* A cancel request of the tracked order returns; time.time() is the local
\* clock, which is not the venue's.
Cancel ==
    /\ fillable
    /\ \E resp \in CancelResponses, now \in Times :
        LET r == ExecuteOrderCancel(order, resp, now)
        IN /\ order' = r.order
           /\ last' = [LastOf("cancel", order.current_state) EXCEPT
                        !.result = r.result,
                        !.stale = r.result = "True" /\ now < order.last_update_timestamp,
                        !.resp = resp.orderId,
                        !.err = resp.msg]
           /\ UNCHANGED <<fillable, updatable, push_ids, rest_ids, balancevars, streamvars, throttlevars>>

\* The placement request of the tracked order returns.
Place ==
    /\ fillable
    /\ \E resp \in PlaceResponses :
        LET r == PlaceOrderAndRecord(order, resp)
        IN /\ order' = r.order
           /\ last' = [LastOf("place", order.current_state) EXCEPT
                        !.result = r.result,
                        !.resp = resp.orderId,
                        !.err = resp.msg,
                        !.ret = r.ret]
           /\ UNCHANGED <<fillable, updatable, push_ids, rest_ids, balancevars, streamvars, throttlevars>>

\* A terminal order leaves the set of orders eligible for state updates...
StopTracking ==
    /\ updatable
    /\ IsTerminal(order.current_state)
    /\ updatable' = FALSE
    /\ last' = LastOf("stop", order.current_state)
    /\ UNCHANGED <<order, fillable, push_ids, rest_ids, balancevars, streamvars, throttlevars>>

\* ... and, once drained, the set eligible for fills.
Evict ==
    /\ fillable
    /\ ~updatable
    /\ fillable' = FALSE
    /\ last' = LastOf("evict", order.current_state)
    /\ UNCHANGED <<order, updatable, push_ids, rest_ids, balancevars, streamvars, throttlevars>>

NextOrders ==
    \/ PushExecutionReport
    \/ BackfillTrades
    \/ BackfillFail
    \/ Place
    \/ StatusPoll
    \/ Cancel
    \/ StopTracking
    \/ Evict



(***************************************************************************)
(* Properties of the order state machine.                                  *)
(***************************************************************************)
RECURSIVE SumQty(_)
SumQty(vs) ==
    IF vs = {} THEN 0
    ELSE LET v == CHOOSE x \in vs : TRUE IN TradeQty(v) + SumQty(vs \ {v})

Pushed == {v \in VenueTrades : push_ids[v] # None}
Backfilled == {v \in VenueTrades : rest_ids[v] # None}
DeliveredIds == ({push_ids[v] : v \in VenueTrades} \cup {rest_ids[v] : v \in VenueTrades}) \ {None}

\* C1: whatever fills were delivered, and however often, the ledger holds each
\* delivered trade id once, with the quantity of its trade, and the order's
\* filled base amount is the sum of the quantities of the distinct trades
\* delivered so far.
C1_FilledIsSumOverDistinctTradeIds ==
    /\ DOMAIN order.order_fills = DeliveredIds
    /\ Cardinality(DeliveredIds) = Cardinality(Pushed \cup Backfilled)
    /\ order.executed_amount_base = SumQty(Pushed \cup Backfilled)

\* A push event has just re-delivered a trade id the ledger already held,
\* with two distinct trades delivered.
C1_Witness ==
    /\ last.op = "push"
    /\ last.dup
    /\ Cardinality(DOMAIN order.order_fills) = 2

\* C2: a venue trade that both the push path and the REST backfill reported
\* carries the same trade id on both, and is in the ledger once, with its
\* quantity; the filled amount counts every reported trade once.
C2_PushAndBackfillAgree ==
    /\ \A v \in Pushed \cap Backfilled :
        /\ push_ids[v] = rest_ids[v]
        /\ push_ids[v] \in DOMAIN order.order_fills
        /\ order.order_fills[push_ids[v]] = TradeQty(v)
    /\ order.executed_amount_base = SumQty(Pushed \cup Backfilled)

\* A trade reported by both paths, another trade by the push path alone.
C2_Witness ==
    /\ Pushed \cap Backfilled # {}
    /\ Pushed \ Backfilled # {}

\* C3: once the order is FILLED, CANCELED or FAILED, no step changes its
\* state or its last applied timestamp.
C3_TerminalAbsorbing ==
    [][IsTerminal(order.current_state) =>
        /\ order'.current_state = order.current_state
        /\ order'.last_update_timestamp = order.last_update_timestamp]_ordervars

\* A cancel acknowledgment has just arrived for a FILLED order, which stays
\* FILLED.
C3_Witness ==
    /\ last.op = "cancel"
    /\ last.result = "True"
    /\ last.pre = "FILLED"
    /\ order.current_state = "FILLED"

\* C4: no step lowers the rank of the order's state; a PARTIALLY_FILLED order
\* never returns to OPEN and an OPEN order never returns to PENDING_CREATE.
C4_StateMonotone ==
    [][/\ Rank(order'.current_state) >= Rank(order.current_state)
       /\ order.current_state = "PARTIALLY_FILLED" => order'.current_state # "OPEN"
       /\ order.current_state = "OPEN" => order'.current_state # "PENDING_CREATE"
       /\ order.current_state # "PENDING_CREATE" => order'.current_state # "PENDING_CREATE"]_ordervars

\* A NEW report has just arrived for a PARTIALLY_FILLED order, which stays
\* PARTIALLY_FILLED.
C4_Witness ==
    /\ last.op = "push"
    /\ last.X = "NEW"
    /\ last.result = "ok"
    /\ last.pre = "PARTIALLY_FILLED"
    /\ order.current_state = "PARTIALLY_FILLED"

\* C5 as claimed: a fill report, PARTIALLY_FILLED or FILLED, handled without
\* error for an order still PENDING_CREATE records its fill on an order that
\* was first made OPEN.
C5_AsClaimed ==
    (/\ last.op = "push"
     /\ last.X \in FillStatuses
     /\ last.result = "ok"
     /\ last.pre = "PENDING_CREATE")
        => last.fill_state = "OPEN"

\* C5, amended: a FILLED report handled without error for an order still
\* PENDING_CREATE first makes the order OPEN, then records the fill, and
\* leaves the order FILLED; a PARTIALLY_FILLED report records the fill on the
\* order still PENDING_CREATE and leaves it PARTIALLY_FILLED.  Either way the
\* reported trade is counted: the filled amount is the sum of the quantities
\* of the trades delivered so far.
C5_ImplicitOpenOnFilledOnly ==
    (/\ last.op = "push"
     /\ last.X \in FillStatuses
     /\ last.result = "ok"
     /\ last.pre = "PENDING_CREATE")
        => /\ last.fill_state = IF last.X = "FILLED" THEN "OPEN" ELSE "PENDING_CREATE"
           /\ order.current_state = ORDER_STATE[last.X]
           /\ Pushed # {}
           /\ order.executed_amount_base = SumQty(Pushed \cup Backfilled)
           /\ order.executed_amount_base > 0

\* A FILLED report has just been handled for an order that was PENDING_CREATE.
C5_Witness ==
    /\ last.op = "push"
    /\ last.X = "FILLED"
    /\ last.result = "ok"
    /\ last.pre = "PENDING_CREATE"
    /\ order.current_state = "FILLED"

\* C6: the order's last applied timestamp never decreases, and a status
\* update older than it, from a push event, a status poll or a cancel
\* acknowledgment, changes neither the state nor the timestamp.
C6_TimestampMonotone ==
    [][/\ order'.last_update_timestamp >= order.last_update_timestamp
       /\ last'.stale =>
            /\ order'.current_state = order.current_state
            /\ order'.last_update_timestamp = order.last_update_timestamp]_ordervars

\* A status report older than the order's timestamp has just been handled,
\* for an order that was not terminal, and was dropped.
C6_Witness ==
    /\ last.op = "push"
    /\ last.stale
    /\ last.X = "FILLED"
    /\ last.pre = "OPEN"
    /\ order.current_state = "OPEN"

\* C9 as claimed: a cancel reports success only when the orderId of the
\* response is the venue id of the order being canceled.
C9_AsClaimed ==
    (/\ last.op = "cancel"
     /\ last.result = "True"
     /\ order.exchange_order_id # None)
        => Str(last.resp) = order.exchange_order_id

\* C9, amended: a cancel reports success exactly when the response is a JSON
\* object with a non-empty orderId, whatever that id is; the order is then
\* CANCELED when the cancel returns, unless it was already terminal or the
\* local clock is behind its last applied timestamp; a response without an
\* orderId never makes the order CANCELED.
C9_CancelAcknowledgment ==
    last.op = "cancel" =>
        /\ last.result = "True" <=> (last.err = <<>> /\ Truthy(last.resp))
        /\ (last.result = "True" /\ ~IsTerminal(last.pre) /\ ~last.stale)
                => order.current_state = "CANCELED"
        /\ (last.result # "True" /\ order.current_state = "CANCELED")
                => last.pre = "CANCELED"

\* A cancel has just been acknowledged with the id of another order, and the
\* order is CANCELED.
C9_Witness ==
    /\ last.op = "cancel"
    /\ last.result = "True"
    /\ order.exchange_order_id = "1"
    /\ Str(last.resp) = "2"
    /\ last.pre = "OPEN"
    /\ order.current_state = "CANCELED"

\* C10: a cancel that the venue answers with an error saying the order does
\* not exist is not raised to the caller but resolved through the not-found
\* path, and an order that was already terminal keeps its state.
C10_CancelNotFoundResolved ==
    (last.op = "cancel" /\ Contains(NotFoundPhrase, last.err)) =>
        /\ last.result = "not_found"
        /\ IsTerminal(order.current_state)
        /\ IsTerminal(last.pre) => order.current_state = last.pre

\* Such a cancel has just been resolved for an order that was FILLED, on a
\* message that says more than the literal; and for one that was OPEN.
C10_Witness ==
    /\ last.op = "cancel"
    /\ last.result = "not_found"
    /\ Len(last.err) > Len(NotFoundPhrase)
    /\ last.pre = "FILLED"
    /\ order.current_state = "FILLED"


(***************************************************************************)
(* Balances: the outboundAccountPosition branch of the listener and        *)
(* _update_balances.                                                       *)
(***************************************************************************)
Assets == {"BTC", "ETH"}
\* The calls of _update_balances in flight at a time.
Pollers == {"p1"}

\* Two calls of _update_balances, which may overlap.
OverlappingPollers == {"p1", "p2"}

\* A call of _update_balances that is not running.
IdleResync == [pc |-> "idle", local_asset_names |-> {}, overlapped |-> FALSE]

\* Amounts as the venue spells them, and a spelling that is no number.
AmountStrings == {JsonStr(ToString(n)) : n \in 0..MaxAmount}
Malformed == JsonStr("x")

\* Entries of a balance list: asset, free and locked amount.
BalanceEntries ==
    { [asset |-> a, free |-> f, locked |-> l] :
        a \in Assets, f \in AmountStrings \cup {Malformed}, l \in AmountStrings }

WellFormedEntries == { e \in BalanceEntries : e.free # Malformed }

\* The lists of at most n entries drawn from a set; a payload has at most as
\* many entries as there are assets, so an asset may be listed twice.
ListsOf(S, n) == UNION { [1..k -> S] : k \in 0..n }

\* One entry of the push payload: parsed, then written to both maps.
\* Decimal() raises on a malformed amount, before either map is written.
PushTotalBalanceLockedOnly(balance_entry) ==
    DecimalOf(Str(balance_entry.locked))

PushTotalBalanceWithoutLocked(balance_entry) ==
    DecimalOf(Str(balance_entry.free))

\* total_balance of a push entry: free plus locked.
PushTotalBalance(balance_entry) ==
    DecimalOf(Str(balance_entry.free)) + DecimalOf(Str(balance_entry.locked))

RECURSIVE ApplyPushBalances(_, _, _)
ApplyPushBalances(balances, avail, bal) ==
    IF balances = <<>> THEN [avail |-> avail, bal |-> bal, raised |-> FALSE]
    ELSE LET balance_entry == Head(balances)
             asset_name == balance_entry.asset
             free_balance == DecimalOf(Str(balance_entry.free))
             locked == DecimalOf(Str(balance_entry.locked))
         IN IF free_balance = Invalid \/ locked = Invalid
                THEN [avail |-> avail, bal |-> bal, raised |-> TRUE]
                ELSE ApplyPushBalances(Tail(balances),
                        Put(avail, asset_name, free_balance),
                        Put(bal, asset_name, PushTotalBalance(balance_entry)))

\* The response of _update_balances written to both maps; remote collects
\* remote_asset_names.
RECURSIVE ApplyAccountBalances(_, _, _, _)
ApplyAccountBalances(balances, avail, bal, remote) ==
    IF balances = <<>> THEN [avail |-> avail, bal |-> bal, remote |-> remote, raised |-> FALSE]
    ELSE LET balance_entry == Head(balances)
             asset_name == balance_entry.asset
             free_balance == DecimalOf(Str(balance_entry.free))
             locked == DecimalOf(Str(balance_entry.locked))
         IN IF free_balance = Invalid \/ locked = Invalid
                THEN [avail |-> avail, bal |-> bal, remote |-> remote, raised |-> TRUE]
                ELSE ApplyAccountBalances(Tail(balances),
                        Put(avail, asset_name, free_balance),
                        Put(bal, asset_name, free_balance + locked),
                        remote \cup {asset_name})

\* del on both maps for each name to remove, in the order given; del raises
\* KeyError on a name the map does not hold.
RECURSIVE RemoveAssets(_, _, _)
RemoveAssets(names, avail, bal) ==
    IF names = <<>> THEN [avail |-> avail, bal |-> bal, raised |-> FALSE]
    ELSE LET asset_name == Head(names)
         IN IF asset_name \notin DOMAIN avail
                THEN [avail |-> avail, bal |-> bal, raised |-> TRUE]
            ELSE IF asset_name \notin DOMAIN bal
                THEN [avail |-> Del(avail, asset_name), bal |-> bal, raised |-> TRUE]
            ELSE RemoveAssets(Tail(names), Del(avail, asset_name), Del(bal, asset_name))

\* The orders in which a set may be iterated.
Orderings(S) == { q \in [1..Cardinality(S) -> S] : \A x \in S : \E k \in DOMAIN q : q[k] = x }

\* local_asset_names.difference(remote_asset_names)
AssetNamesToRemove(local_asset_names, remote_asset_names) ==
    local_asset_names \ remote_asset_names

\* _update_balances from the response on: the maps afterwards and whether it
\* raised.
FinishUpdateBalances(balances, local_asset_names, names_order, avail, bal) ==
    LET a == ApplyAccountBalances(balances, avail, bal, {})
    IN IF a.raised THEN [avail |-> a.avail, bal |-> a.bal, raised |-> TRUE]
       ELSE RemoveAssets(names_order, a.avail, a.bal)

\* What is recorded of a balance operation: its name, the entries of its
\* payload or response, whether it raised.
LastBalanceOf(op, entries, raised) == [op |-> op, entries |-> entries, raised |-> raised]

InitBalances ==
    /\ account_balances = EmptyMap
    /\ account_available_balances = EmptyMap
    /\ resync = [p \in Pollers |-> IdleResync]
    /\ lastb = LastBalanceOf("init", <<>>, FALSE)

\* The listener takes one outboundAccountPosition from the queue.
PushAccountPosition ==
    \E balances \in ListsOf(BalanceEntries, Cardinality(Assets)) :
        LET r == ApplyPushBalances(balances, account_available_balances, account_balances)
        IN /\ account_available_balances' = r.avail
           /\ account_balances' = r.bal
           /\ lastb' = LastBalanceOf("push", balances, r.raised)
           /\ UNCHANGED resync
           /\ UNCHANGED <<ordervars, streamvars, throttlevars>>

\* _update_balances up to its request: the local asset names are recorded.
UpdateBalancesBegin(p) ==
    /\ resync[p].pc = "idle"
    /\ resync' = [q \in DOMAIN resync |->
                    IF q = p
                        THEN [pc |-> "await",
                              local_asset_names |-> DOMAIN account_balances,
                              overlapped |-> \E x \in DOMAIN resync : resync[x].pc = "await"]
                        ELSE [resync[q] EXCEPT !.overlapped = @ \/ resync[q].pc = "await"]]
    /\ lastb' = LastBalanceOf("begin", <<>>, FALSE)
    /\ UNCHANGED <<account_balances, account_available_balances>>
    /\ UNCHANGED <<ordervars, streamvars, throttlevars>>

\* _update_balances up to the rate limiter: the local asset names are
\* recorded and _api_request waits for capacity.
UpdateBalancesCall(p) ==
    /\ resync[p].pc = "idle"
    /\ resync' = [resync EXCEPT ![p] =
                    [pc |-> "throttle",
                     local_asset_names |-> DOMAIN account_balances,
                     overlapped |-> FALSE]]
    /\ lastb' = LastBalanceOf("begin", <<>>, FALSE)
    /\ UNCHANGED <<account_balances, account_available_balances>>
    /\ UNCHANGED <<ordervars, streamvars, throttlevars>>

\* The response arrives, one of the given responses: one entry per asset of
\* the account.
UpdateBalancesEndWith(p, responses) ==
    /\ resync[p].pc = "await"
    /\ \E balances \in responses :
        /\ \A j, k \in DOMAIN balances : balances[j].asset = balances[k].asset => j = k
        /\ LET remote == {balances[k].asset : k \in DOMAIN balances}
               to_remove == AssetNamesToRemove(resync[p].local_asset_names, remote)
           IN \E names_order \in Orderings(to_remove) :
                LET r == FinishUpdateBalances(balances, resync[p].local_asset_names,
                            names_order, account_available_balances, account_balances)
                IN /\ account_available_balances' = r.avail
                   /\ account_balances' = r.bal
                   /\ lastb' = LastBalanceOf("resync", balances, r.raised)
    /\ resync' = [resync EXCEPT ![p] = IdleResync]
    /\ UNCHANGED <<ordervars, streamvars, throttlevars>>

UpdateBalancesEnd(p) ==
    UpdateBalancesEndWith(p, ListsOf(WellFormedEntries, Cardinality(Assets)))

\* The request of _update_balances fails: the error propagates.
UpdateBalancesFail(p) ==
    /\ resync[p].pc = "await"
    /\ resync' = [resync EXCEPT ![p] = IdleResync]
    /\ lastb' = LastBalanceOf("resync", <<>>, TRUE)
    /\ UNCHANGED <<account_balances, account_available_balances>>
    /\ UNCHANGED <<ordervars, streamvars, throttlevars>>

NextBalances ==
    \/ PushAccountPosition
    \/ \E p \in Pollers : UpdateBalancesBegin(p)
    \/ \E p \in Pollers : UpdateBalancesEnd(p)
    \/ \E p \in Pollers : UpdateBalancesFail(p)


(***************************************************************************)
(* The push stream: frames, decompress_ws_message, the queue, and the loop *)
(* of _user_stream_event_listener.                                         *)
(***************************************************************************)
\* Events as the decoder yields them: an execution report, a balance event,
\* an event of another type, and JSON that is no object.
NoReport == ExecutionReport("c9", "NEW", 0, VenueOrderId, 1, FALSE, TRUE)

ReportEvent(r) == [e |-> "executionReport", report |-> r, balances |-> <<>>]
BalanceEvent(b) == [e |-> "outboundAccountPosition", report |-> NoReport, balances |-> b]
OtherEvent == [e |-> "other", report |-> NoReport, balances |-> <<>>]
ScalarEvent == [e |-> "scalar", report |-> NoReport, balances |-> <<>>]

\* Reports of the stream: an acknowledgment, a fill, a fill without its fee
\* fields, a status the table does not hold.
StreamReports ==
    { ExecutionReport("c1", "NEW", 0, VenueOrderId, 1, FALSE, TRUE),
      ExecutionReport("c1", "FILLED", 0, VenueOrderId, 1, FALSE, TRUE),
      ExecutionReport("c1", "FILLED", 0, VenueOrderId, 1, FALSE, FALSE),
      ExecutionReport("c1", "UNKNOWN", 0, VenueOrderId, 1, FALSE, TRUE) }

\* Balance payloads of the stream: one entry; a valid entry followed by one
\* whose amount is no number.
StreamBalances ==
    { << [asset |-> "BTC", free |-> JsonStr("1"), locked |-> JsonStr("1")] >>,
      << [asset |-> "BTC", free |-> JsonStr("1"), locked |-> JsonStr("0")],
         [asset |-> "ETH", free |-> Malformed, locked |-> JsonStr("0")] >> }

StreamEvents ==
    {ReportEvent(r) : r \in StreamReports}
    \cup {BalanceEvent(b) : b \in StreamBalances}
    \cup {OtherEvent, ScalarEvent}

\* A frame: bytes or not; whether the bytes are a gzip stream; whether what
\* the frame holds (inside the gzip stream, or as it is) is the JSON text of
\* the event.  A frame that is not bytes and holds no JSON text is a message
\* already decoded: the event itself.
Frame(bytes, gzip, json, ev) == [bytes |-> bytes, gzip |-> gzip, json |-> json, event |-> ev]

Frames ==
    {Frame(TRUE, TRUE, TRUE, ev) : ev \in StreamEvents}
    \cup {Frame(TRUE, FALSE, TRUE, ReportEvent(r)) :
            r \in {ExecutionReport("c1", "NEW", 0, VenueOrderId, 1, FALSE, TRUE)}}
    \cup {Frame(TRUE, TRUE, FALSE, OtherEvent), Frame(TRUE, FALSE, FALSE, OtherEvent)}
    \cup {Frame(FALSE, FALSE, FALSE, OtherEvent)}

\* Every carrier of every event: a gzip stream of its JSON text, the UTF-8
\* bytes of the text, the text as a str, the event already decoded; and bytes
\* that hold no JSON, gzip or not.
RawFrames ==
    {Frame(TRUE, TRUE, TRUE, ev) : ev \in StreamEvents}
    \cup {Frame(TRUE, FALSE, TRUE, ev) : ev \in StreamEvents}
    \cup {Frame(FALSE, FALSE, TRUE, ev) : ev \in StreamEvents}
    \cup {Frame(FALSE, FALSE, FALSE, ev) : ev \in StreamEvents}
    \cup {Frame(TRUE, TRUE, FALSE, OtherEvent), Frame(TRUE, FALSE, FALSE, OtherEvent)}

\* A slip: no fallback to plain JSON when the bytes are no gzip stream.
DecompressWithoutFallback(message) ==
    IF message.bytes
        THEN IF message.gzip /\ message.json
                THEN [raised |-> FALSE, value |-> message.event, parsed |-> TRUE]
                ELSE [raised |-> TRUE, value |-> OtherEvent, parsed |-> FALSE]
        ELSE [raised |-> FALSE, value |-> message.event, parsed |-> ~message.json]

\* A slip: a str parsed as JSON text too.
DecompressParsingText(message) ==
    IF message.bytes /\ ~message.json
        THEN [raised |-> TRUE, value |-> OtherEvent, parsed |-> FALSE]
        ELSE [raised |-> FALSE, value |-> message.event, parsed |-> TRUE]

\* decompress_ws_message: gzip and JSON; failing that, the bytes as JSON text
\* (the bytes of a gzip stream are no JSON text); failing that too, the error
\* of json.loads leaves the function.  A message that is not bytes is
\* returned as it is: a str stays the text, unparsed.  value is the event the
\* result holds, parsed whether the result is its key/value record.
DecompressWsMessage(message) ==
    IF message.bytes
        THEN IF message.gzip /\ message.json
                THEN [raised |-> FALSE, value |-> message.event, parsed |-> TRUE]
             ELSE IF ~message.gzip /\ message.json
                THEN [raised |-> FALSE, value |-> message.event, parsed |-> TRUE]
             ELSE [raised |-> TRUE, value |-> OtherEvent, parsed |-> FALSE]
        ELSE [raised |-> FALSE, value |-> message.event, parsed |-> ~message.json]

WellFormed(message) == ~message.bytes \/ message.json

\* One pass of the loop body over an event: the order and the balance maps
\* afterwards, and whether the body raised.
HandleEvent(ev, o, inFillable, inUpdatable, avail, bal) ==
    IF ev.e = "scalar"
        THEN [order |-> o, avail |-> avail, bal |-> bal, raised |-> TRUE]
    ELSE IF ev.e = "executionReport"
        THEN LET r == HandleExecutionReport(o, ev.report, inFillable, inUpdatable)
             IN [order |-> r.order, avail |-> avail, bal |-> bal, raised |-> r.raised]
    ELSE IF ev.e = "outboundAccountPosition"
        THEN LET r == ApplyPushBalances(ev.balances, avail, bal)
             IN [order |-> o, avail |-> r.avail, bal |-> r.bal, raised |-> r.raised]
    ELSE [order |-> o, avail |-> avail, bal |-> bal, raised |-> FALSE]

\* A slip: the error of an event leaves the loop.
OnHandlerExceptionHalt == "halted"

\* except Exception: the error is logged and the loop pauses, then goes on.
OnHandlerException == "backoff"

InitStream ==
    /\ inbox = <<>>
    /\ arrived = 0
    /\ dropped = 0
    /\ lastf = Frame(FALSE, FALSE, FALSE, OtherEvent)
    /\ decoded = [raised |-> FALSE, value |-> OtherEvent, parsed |-> TRUE]
    /\ listener = "waiting"
    /\ logged = 0
    /\ outcomes = <<>>

\* The transport delivers a frame; the decoder's caller drops it on a decode
\* error and queues the event otherwise.
ReceiveFrameOf(frames) ==
    /\ arrived < MaxFrames
    /\ \E message \in frames :
        LET d == DecompressWsMessage(message)
        IN /\ lastf' = message
           /\ decoded' = d
           /\ arrived' = arrived + 1
           /\ dropped' = IF d.raised THEN dropped + 1 ELSE dropped
           /\ inbox' = IF d.raised THEN inbox ELSE Append(inbox, d.value)
    /\ UNCHANGED <<listener, logged, outcomes, ordervars, balancevars, throttlevars>>

ReceiveFrame == ReceiveFrameOf(Frames)

\* A slip: the loop takes an event only while no poll is under way.
ListenerTakeBehindPolls ==
    /\ \A p \in DOMAIN resync : resync[p].pc = "idle"
    /\ listener = "waiting"
    /\ inbox # <<>>
    /\ LET r == HandleEvent(Head(inbox), order, fillable, updatable,
                    account_available_balances, account_balances)
       IN /\ order' = r.order
          /\ account_available_balances' = r.avail
          /\ account_balances' = r.bal
          /\ listener' = IF r.raised THEN OnHandlerException ELSE "waiting"
          /\ logged' = IF r.raised THEN logged + 1 ELSE logged
          /\ outcomes' = Append(outcomes, IF ~r.raised THEN "applied" ELSE "rejected")
    /\ inbox' = Tail(inbox)
    /\ UNCHANGED <<arrived, dropped, lastf, decoded, fillable, updatable, push_ids, rest_ids,
                   last, resync, lastb, throttlevars>>

\* The loop takes the next event and runs its body on it.
ListenerTake ==
    /\ listener = "waiting"
    /\ inbox # <<>>
    /\ LET r == HandleEvent(Head(inbox), order, fillable, updatable,
                    account_available_balances, account_balances)
           changed == \/ r.order # order
                      \/ r.avail # account_available_balances
                      \/ r.bal # account_balances
       IN /\ order' = r.order
          /\ account_available_balances' = r.avail
          /\ account_balances' = r.bal
          /\ listener' = IF r.raised THEN OnHandlerException ELSE "waiting"
          /\ logged' = IF r.raised THEN logged + 1 ELSE logged
          /\ outcomes' = Append(outcomes,
                            IF ~r.raised THEN "applied"
                            ELSE IF changed THEN "partial" ELSE "rejected")
    /\ inbox' = Tail(inbox)
    /\ UNCHANGED <<arrived, dropped, lastf, decoded, fillable, updatable, push_ids, rest_ids,
                   last, resync, lastb, throttlevars>>

\* The pause after a logged error ends.
ListenerWake ==
    /\ listener = "backoff"
    /\ listener' = "waiting"
    /\ UNCHANGED <<inbox, arrived, dropped, lastf, decoded, logged, outcomes,
                   ordervars, balancevars, throttlevars>>

\* The task of the loop is cancelled while it waits for an event or pauses:
\* CancelledError is raised there and re-raised by the loop.
CancelListener ==
    /\ listener \in {"waiting", "backoff"}
    /\ listener' = "cancelled"
    /\ UNCHANGED <<inbox, arrived, dropped, lastf, decoded, logged, outcomes,
                   ordervars, balancevars, throttlevars>>

\* decompress_ws_message applied to a frame, by itself.
DecodeFrame ==
    /\ arrived < MaxFrames
    /\ \E message \in RawFrames :
        /\ lastf' = message
        /\ decoded' = DecompressWsMessage(message)
        /\ arrived' = arrived + 1
    /\ UNCHANGED <<inbox, dropped, listener, logged, outcomes,
                   ordervars, balancevars, throttlevars>>

NextDecoder == DecodeFrame

NextStream ==
    \/ ReceiveFrame
    \/ ListenerTake
    \/ ListenerWake
    \/ CancelListener

(***************************************************************************)
(* The rate limiter.                                                       *)
(***************************************************************************)
\* A RateLimit of the table, and a LinkedLimit of it (weight 1 throughout the
\* table).
RateLimit(id, limit, interval, linked) ==
    [limit_id |-> id, limit |-> limit, time_interval |-> interval,
     linked_limits |-> linked]

LinkedLimit(id) == [limit_id |-> id, weight |-> 1]

\* The shape of an endpoint's entry of RATE_LIMITS, reduced: the endpoint's
\* own limit is linked to three pool limits (the long-window pool, the burst
\* pool with the shortest interval, the mixed pool), each with weight 1.
RATE_LIMITS ==
    { RateLimit("POST", 2, 2, {}),
      RateLimit("POST_BURST", 2, 1, {}),
      RateLimit("POST_MIXED", 3, 2, {}),
      RateLimit("ORDER", 3, 2, {LinkedLimit("POST"), LinkedLimit("POST_BURST"),
                                LinkedLimit("POST_MIXED")}) }

\* One bucket of capacity 5 and a window of one time unit.
SequentialLimits == { RateLimit("S", 5, 1, {}) }

Callers == {"a", "b"}

\* The tables explored, with who calls and how often.
SequentialCalls == [table |-> SequentialLimits, callers |-> {"a"}, calls |-> 6]

Scenarios ==
    { [table |-> RATE_LIMITS, callers |-> Callers, calls |-> MaxCalls],
      SequentialCalls }

LimitIds(table) == {l.limit_id : l \in table}

LimitOf(table, id) == CHOOSE l \in table : l.limit_id = id

\* The ids a call names: those no other limit links to.
Endpoints(table) ==
    LimitIds(table) \ {k.limit_id : k \in UNION {l.linked_limits : l \in table}}

\* The longest interval of a table: the history kept of what was granted.
MaxInterval(table) ==
    CHOOSE n \in {l.time_interval : l \in table} :
        \A l \in table : l.time_interval <= n

\* What one acquire(id) consumes: its own bucket and every linked bucket.
Involved(table, id) ==
    {[limit_id |-> id, weight |-> 1]} \cup LimitOf(table, id).linked_limits

WeightOn(table, id, i) ==
    IF \E k \in Involved(table, id) : k.limit_id = i
        THEN (CHOOSE k \in Involved(table, id) : k.limit_id = i).weight
        ELSE 0

HasCapacityOffByOne(bucket, limit, weight) ==
    bucket.current_usage <= limit.limit

HasCapacity(bucket, limit, weight) ==
    bucket.current_usage + weight <= limit.limit

WithinCapacityOfPrimary(table, b, id) ==
    HasCapacity(b[id], LimitOf(table, id), 1)

WithinCapacity(table, b, id) ==
    \A k \in Involved(table, id) :
        HasCapacity(b[k.limit_id], LimitOf(table, k.limit_id), k.weight)

Consume(table, b, id) ==
    [i \in DOMAIN b |->
        [b[i] EXCEPT !.current_usage = @ + WeightOn(table, id, i)]]

\* now - window_start >= window_duration; the time since window_start is
\* kept up to the interval, beyond which it makes no difference.
DueAfterWindowOnly(table, b, id) == b[id].elapsed > LimitOf(table, id).time_interval

Due(table, b, id) == b[id].elapsed >= LimitOf(table, id).time_interval

ReplenishedKeepingUsage(bucket) == [bucket EXCEPT !.elapsed = 0]

Replenished(bucket) == [current_usage |-> 0, elapsed |-> 0]

ZeroGrants(table) == [i \in LimitIds(table) |-> 0]

NoAcquisition == [caller |-> "", limit_id |-> "", result |-> "none"]

ThrottlerBuilt(scenario) ==
    /\ rate_limits = scenario.table
    /\ buckets = [i \in LimitIds(scenario.table) |->
                    [current_usage |-> 0, elapsed |-> 0]]
    /\ grants = <<ZeroGrants(scenario.table)>>
    /\ callers = [c \in scenario.callers |->
                    [left |-> scenario.calls, want |-> "", done |-> <<>>,
                     reset_seen |-> FALSE]]
    /\ lastq = NoAcquisition

\* create_throttler: the throttler of the connector.
InitThrottler ==
    ThrottlerBuilt([table |-> RATE_LIMITS, callers |-> Callers, calls |-> MaxCalls])

\* The buckets as acquire(id) sees them: those it involves that are due have
\* replenished.
Current(table, b, id) ==
    [i \in DOMAIN b |->
        IF WeightOn(table, id, i) > 0 /\ Due(table, b, i)
            THEN Replenished(b[i]) ELSE b[i]]

\* acquire(id) by caller c, once: with capacity in its own bucket and in
\* every linked bucket, all are consumed; otherwise none is, nothing is
\* written and the caller waits to try again.  done records, per completed
\* call, whether the caller had to wait; reset_seen, whether a bucket
\* replenished after the caller's first call.
Acquire(c, id) ==
    /\ c \in DOMAIN callers
    /\ id \in Endpoints(rate_limits)
    /\ callers[c].left > 0
    /\ callers[c].want \in {"", id}
    /\ LET current == Current(rate_limits, buckets, id)
       IN  IF WithinCapacity(rate_limits, current, id)
            THEN /\ buckets' = Consume(rate_limits, current, id)
                 /\ grants' = [grants EXCEPT ![1] =
                        [i \in DOMAIN @ |-> @[i] + WeightOn(rate_limits, id, i)]]
                 /\ callers' = [x \in DOMAIN callers |->
                        [left |-> IF x = c THEN callers[x].left - 1 ELSE callers[x].left,
                         want |-> IF x = c THEN "" ELSE callers[x].want,
                         done |-> IF x = c
                                    THEN Append(callers[x].done, callers[x].want # "")
                                    ELSE callers[x].done,
                         reset_seen |-> \/ callers[x].reset_seen
                                        \/ /\ callers[x].done # <<>>
                                           /\ current # buckets]]
                 /\ lastq' = [caller |-> c, limit_id |-> id, result |-> "granted"]
            ELSE /\ UNCHANGED <<buckets, grants>>
                 /\ callers' = [callers EXCEPT ![c].want = id]
                 /\ lastq' = [caller |-> c, limit_id |-> id, result |-> "waits"]
    /\ UNCHANGED <<rate_limits, ordervars, balancevars, streamvars>>

\* A bucket replenishes itself once its window has passed.
Replenish(id) ==
    /\ id \in DOMAIN buckets
    /\ Due(rate_limits, buckets, id)
    /\ buckets' = [buckets EXCEPT ![id] = Replenished(@)]
    /\ callers' = [c \in DOMAIN callers |->
                    [callers[c] EXCEPT !.reset_seen = @ \/ callers[c].done # <<>>]]
    /\ UNCHANGED <<rate_limits, grants, lastq, ordervars, balancevars, streamvars>>

\* Time passes by one tick.
Tick ==
    /\ buckets' = [i \in DOMAIN buckets |->
                    [buckets[i] EXCEPT !.elapsed =
                        IF @ < LimitOf(rate_limits, i).time_interval THEN @ + 1 ELSE @]]
    /\ grants' = SubSeq(<<ZeroGrants(rate_limits)>> \o grants, 1,
                        IF Len(grants) < MaxInterval(rate_limits)
                            THEN Len(grants) + 1 ELSE MaxInterval(rate_limits))
    /\ UNCHANGED <<rate_limits, callers, lastq, ordervars, balancevars, streamvars>>

\* _api_request of a poll: execute_request passes the rate limiter under the
\* limit id of its path, with capacity, and the request is sent; without, it
\* waits there.
ApiRequest(p) ==
    /\ resync[p].pc = "throttle"
    /\ \E id \in Endpoints(rate_limits) :
        LET current == Current(rate_limits, buckets, id)
        IN /\ WithinCapacity(rate_limits, current, id)
           /\ buckets' = Consume(rate_limits, current, id)
           /\ grants' = [grants EXCEPT ![1] =
                    [i \in DOMAIN @ |-> @[i] + WeightOn(rate_limits, id, i)]]
    /\ resync' = [resync EXCEPT ![p].pc = "await"]
    /\ UNCHANGED <<account_balances, account_available_balances, lastb>>
    /\ UNCHANGED <<rate_limits, callers, lastq, ordervars, streamvars>>

NextThrottler ==
    \/ \E c \in Callers, id \in LimitIds(rate_limits) : Acquire(c, id)
    \/ \E id \in LimitIds(rate_limits) : Replenish(id)
    \/ Tick

(***************************************************************************)
(* The connector: orders and balances share the listener but no state, so  *)
(* each is explored with the other at rest.                                *)
(***************************************************************************)
vars == <<ordervars, balancevars, streamvars, throttlevars>>

Init == InitOrders /\ InitBalances /\ InitStream /\ InitThrottler

SpecOrders == Init /\ [][NextOrders]_vars

SpecBalances == Init /\ [][NextBalances]_vars

\* Orders or balances, whichever moves first, the other at rest.
NextConnector ==
    \/ lastb.op = "init" /\ NextOrders
    \/ last.op = "init" /\ NextBalances

SpecConnector == Init /\ [][NextConnector]_vars

\* The push stream alone: the REST paths at rest.
SpecStream == Init /\ [][NextStream]_vars

\* The event loop runs an event that is queued, and its pause ends.
FairSpecStream ==
    /\ SpecStream
    /\ WF_vars(ListenerTake)
    /\ WF_vars(ListenerWake)

\* Two calls of _update_balances whose requests succeed, the push stream at
\* rest.
InitResyncs ==
    /\ InitOrders /\ InitStream /\ InitThrottler
    /\ account_balances = EmptyMap
    /\ account_available_balances = EmptyMap
    /\ resync = [p \in OverlappingPollers |-> IdleResync]
    /\ lastb = LastBalanceOf("init", <<>>, FALSE)

NextResyncs ==
    \/ \E p \in OverlappingPollers : UpdateBalancesBegin(p)
    \/ \E p \in OverlappingPollers : UpdateBalancesEnd(p)

SpecResyncs == InitResyncs /\ [][NextResyncs]_vars

\* The listener and a poll side by side: events arrive and are consumed
\* while _update_balances calls, waits for the rate limiter, waits for its
\* response and returns, again and again.
ConcurrentFrames ==
    { Frame(TRUE, TRUE, TRUE,
            ReportEvent(ExecutionReport("c1", "NEW", 0, VenueOrderId, 1, FALSE, TRUE))),
      Frame(TRUE, TRUE, TRUE, ScalarEvent) }

PolledBalances ==
    { <<>>, << [asset |-> "BTC", free |-> JsonStr("1"), locked |-> JsonStr("1")] >> }

NextConcurrent ==
    \/ ReceiveFrameOf(ConcurrentFrames)
    \/ ListenerTake
    \/ ListenerWake
    \/ \E p \in Pollers : UpdateBalancesCall(p)
    \/ \E p \in Pollers : ApiRequest(p)
    \/ \E p \in Pollers : UpdateBalancesEndWith(p, PolledBalances)
    \/ \E p \in Pollers : UpdateBalancesFail(p)
    \/ Tick

\* The throttler is built with the table of one bucket: what matters here is
\* that a poll finds it full at times.
InitConcurrent ==
    /\ InitOrders /\ InitBalances /\ InitStream
    /\ ThrottlerBuilt(SequentialCalls)

SpecConcurrent == InitConcurrent /\ [][NextConcurrent]_vars

\* The event loop runs every task that can go on: the listener with an event
\* queued or its pause over, the poll with capacity or its response there;
\* time passes and every request is answered or fails.
FairSpecConcurrent ==
    /\ SpecConcurrent
    /\ WF_vars(ListenerTake)
    /\ WF_vars(ListenerWake)
    /\ WF_vars(Tick)
    /\ \A p \in Pollers : WF_vars(ApiRequest(p))
    /\ \A p \in Pollers :
            WF_vars(UpdateBalancesEndWith(p, PolledBalances) \/ UpdateBalancesFail(p))

\* The decoder alone, on every carrier.
SpecDecoder == Init /\ [][NextDecoder]_vars

\* The rate limiter alone, built with any of the tables.
InitThrottlers ==
    /\ InitOrders /\ InitBalances /\ InitStream
    /\ \E scenario \in Scenarios : ThrottlerBuilt(scenario)

SpecThrottler == InitThrottlers /\ [][NextThrottler]_vars

\* Time passes, a due bucket replenishes, and a caller with a call to make
\* makes it (a waiting caller tries again).
FairSpecThrottler ==
    /\ SpecThrottler
    /\ WF_vars(Tick)
    /\ \A id \in {"S", "ORDER", "POST", "POST_BURST", "POST_MIXED"} : WF_vars(Replenish(id))
    /\ \A c \in Callers : WF_vars(\E id \in LimitIds(rate_limits) : Acquire(c, id))

(***************************************************************************)
(* Properties of the balance maps.                                         *)
(***************************************************************************)
\* The assets a list of entries names, and the last entry it has for one.
ListedAssets(entries) == {entries[k].asset : k \in DOMAIN entries}

LastEntryFor(entries, a) ==
    entries[CHOOSE k \in DOMAIN entries :
                /\ entries[k].asset = a
                /\ \A j \in DOMAIN entries : entries[j].asset = a => j <= k]

SameHolding(a) ==
    /\ (a \in DOMAIN account_balances') <=> (a \in DOMAIN account_balances)
    /\ (a \in DOMAIN account_available_balances') <=> (a \in DOMAIN account_available_balances)
    /\ a \in DOMAIN account_balances => account_balances'[a] = account_balances[a]
    /\ a \in DOMAIN account_available_balances =>
            account_available_balances'[a] = account_available_balances[a]

\* C7: handling an outboundAccountPosition event leaves the free and total
\* balance of every asset the payload does not list as it was, adding and
\* removing none of them; and, when the payload is handled without error,
\* every listed asset holds free = the entry's free and total = free + locked
\* of the last entry that names it.
C7_PushPatchesListedAssetsOnly ==
    [][ lastb'.op = "push" =>
          LET listed == ListedAssets(lastb'.entries)
          IN /\ \A a \in Assets \ listed : SameHolding(a)
             /\ ~lastb'.raised =>
                  \A a \in listed :
                    LET e == LastEntryFor(lastb'.entries, a)
                    IN /\ a \in DOMAIN account_balances'
                       /\ a \in DOMAIN account_available_balances'
                       /\ account_available_balances'[a] = DecimalOf(Str(e.free))
                       /\ account_balances'[a] =
                            DecimalOf(Str(e.free)) + DecimalOf(Str(e.locked)) ]_balancevars

\* A push that lists BTC alone, with something locked, while ETH is held.
C7_Witness ==
    /\ lastb.op = "push"
    /\ ~lastb.raised
    /\ ListedAssets(lastb.entries) = {"BTC"}
    /\ "ETH" \in DOMAIN account_balances
    /\ account_balances["BTC"] > account_available_balances["BTC"]

\* C8 as stated: after _update_balances completes, both maps hold exactly the
\* assets of the response, each with free = the response's free and total =
\* free + locked.
C8_AsClaimed ==
    (lastb.op = "resync" /\ ~lastb.raised) =>
        /\ DOMAIN account_balances = ListedAssets(lastb.entries)
        /\ DOMAIN account_available_balances = ListedAssets(lastb.entries)
        /\ \A k \in DOMAIN lastb.entries :
            LET e == lastb.entries[k]
            IN /\ account_available_balances[e.asset] = DecimalOf(Str(e.free))
               /\ account_balances[e.asset] =
                    DecimalOf(Str(e.free)) + DecimalOf(Str(e.locked))

(***************************************************************************)
(* Properties of the placement.                                            *)
(***************************************************************************)
\* C12: a placement that succeeds returns the venue's order id, as a string,
\* and the transact time in seconds, and leaves the order's state, timestamp
\* and ledger as they were; an order becomes OPEN only in a step of the push
\* path or of the status poll.
C12_PlacementDoesNotAssertOpen ==
    [][ /\ (last'.op = "place" /\ last'.result = "ok") =>
            /\ last'.ret = <<ToString(VenueOrderId), last'.ret[2]>>
            /\ last'.ret[1] = Str(last'.resp)
            /\ last'.ret[2] \in Times
            /\ order'.exchange_order_id # None
        /\ last'.op = "place" =>
            /\ order'.current_state = order.current_state
            /\ order'.last_update_timestamp = order.last_update_timestamp
            /\ order'.order_fills = order.order_fills
        /\ (order.current_state # "OPEN" /\ order'.current_state = "OPEN") =>
            last'.op \in {"push", "poll"} ]_ordervars

\* A placement has just succeeded and the order is still PENDING_CREATE, with
\* the venue's id.
C12_Witness ==
    /\ last.op = "place"
    /\ last.result = "ok"
    /\ last.ret[1] = ToString(VenueOrderId)
    /\ order.current_state = "PENDING_CREATE"
    /\ order.exchange_order_id = ToString(VenueOrderId)

(***************************************************************************)
(* Properties of the status vocabulary.                                    *)
(***************************************************************************)
\* C19: a status string the table does not hold changes nothing of the order:
\* a push report carrying it for an order eligible for updates is raised
\* inside the loop (logged, see the listener), a status poll answered with it
\* is raised to the caller, and either way the order, its ledger and its
\* timestamp are as they were.
C19_UnknownStatusRejected ==
    [][ (last'.op \in {"push", "poll"} /\ last'.X = "UNKNOWN") =>
            /\ order' = order
            /\ push_ids' = push_ids
            /\ last'.op = "poll" => last'.result = "raised"
            /\ (last'.op = "push" /\ updatable /\ last'.result # "ignored")
                    => last'.result = "raised" ]_ordervars

\* A status poll of an OPEN order has just been answered with an unknown
\* status, and the order is still OPEN.
C19_Witness ==
    /\ last.op = "poll"
    /\ last.X = "UNKNOWN"
    /\ last.result = "raised"
    /\ last.pre = "OPEN"
    /\ order.current_state = "OPEN"

(***************************************************************************)
(* Properties of the REST queries.                                         *)
(***************************************************************************)
BalancesUnchanged ==
    /\ account_balances' = account_balances
    /\ account_available_balances' = account_available_balances

\* C11: a status query answered with an error whose text holds the
\* order-not-found literal is not raised: the order is resolved through the
\* not-found path and ends terminal.  Any other error of a status query, every
\* error of a fill query and every error of the balance request is raised to
\* the caller, and leaves the order, its ledger and both balance maps as they
\* were.
C11_NotFoundAbsorbedOthersPropagate ==
    [][ /\ (last'.op = "poll" /\ last'.err # <<>>) =>
            IF Contains(NotFoundPhrase, last'.err)
                THEN /\ last'.result = "not_found"
                     /\ IsTerminal(order'.current_state)
                     /\ BalancesUnchanged
                ELSE /\ last'.result = "raised"
                     /\ order' = order
                     /\ BalancesUnchanged
        /\ (last'.op = "backfill" /\ last'.err # <<>>) =>
                /\ last'.result = "raised"
                /\ order' = order
                /\ rest_ids' = rest_ids
                /\ BalancesUnchanged
        /\ (lastb'.op = "resync" /\ lastb'.raised) =>
                /\ order' = order
                /\ BalancesUnchanged ]_vars

\* A status query of an OPEN order has just been answered with a not-found
\* error that says more than the literal, and the order is resolved.
C11_Witness ==
    /\ last.op = "poll"
    /\ last.result = "not_found"
    /\ Len(last.err) > Len(NotFoundPhrase)
    /\ last.pre = "OPEN"
    /\ IsTerminal(order.current_state)

\* C20: every held asset has total >= free >= 0, in both maps, after any
\* sequence of push patches and resyncs (the amounts of the payloads are not
\* negative).
C20_TotalAtLeastFree ==
    /\ DOMAIN account_balances = DOMAIN account_available_balances
    /\ \A a \in DOMAIN account_balances :
        /\ account_available_balances[a] >= 0
        /\ account_balances[a] >= account_available_balances[a]

\* A resync has just left an asset with something free and something locked.
C20_Witness ==
    /\ lastb.op = "resync"
    /\ ~lastb.raised
    /\ \E a \in DOMAIN account_balances :
        /\ account_available_balances[a] > 0
        /\ account_balances[a] > account_available_balances[a]

(***************************************************************************)
(* Properties of the push stream.                                          *)
(***************************************************************************)
Failures == {k \in DOMAIN outcomes : outcomes[k] # "applied"}

\* What earlier events applied is kept: no fill leaves the ledger or changes,
\* the filled amount and the rank of the state do not drop, no held asset is
\* removed.
EarlierStateIntact ==
    /\ \A t \in DOMAIN order.order_fills :
        /\ t \in DOMAIN order'.order_fills
        /\ order'.order_fills[t] = order.order_fills[t]
    /\ order'.executed_amount_base >= order.executed_amount_base
    /\ Rank(order'.current_state) >= Rank(order.current_state)
    /\ DOMAIN account_balances \subseteq DOMAIN account_balances'
    /\ DOMAIN account_available_balances \subseteq DOMAIN account_available_balances'

\* C13: every event whose handling raises is logged and followed by a pause,
\* not by the end of the loop, and keeps what earlier events applied; and
\* after such an event the events still queued are all taken in the end,
\* unless the loop is cancelled.
C13_LoopSurvivesBadEvent ==
    /\ [](logged = Cardinality(Failures))
    /\ [][ (Len(outcomes') = Len(outcomes) + 1 /\ outcomes'[Len(outcomes')] # "applied") =>
                /\ listener' = "backoff"
                /\ logged' = logged + 1
                /\ EarlierStateIntact ]_vars
    /\ (Failures # {} /\ inbox # <<>>) ~> (listener = "cancelled" \/ inbox = <<>>)

\* An event that raised has been followed by one that was applied.
C13_Witness ==
    \E k \in DOMAIN outcomes :
        /\ outcomes[k] # "applied"
        /\ k + 1 \in DOMAIN outcomes
        /\ outcomes[k + 1] = "applied"
        /\ order.current_state = "FILLED"

\* C14 as stated: when the loop has stopped on a cancellation, every event it
\* took has had all of its effects or none.
C14_AsClaimed ==
    listener = "cancelled" => \A k \in DOMAIN outcomes : outcomes[k] # "partial"

RECURSIVE GrantedIn(_, _)
GrantedIn(id, n) ==
    IF n = 0 THEN 0
    ELSE (IF n <= Len(grants) THEN grants[n][id] ELSE 0) + GrantedIn(id, n - 1)

\* C15 as stated: the weight granted on a bucket within any interval as long
\* as its window never exceeds its capacity.
C15_AsClaimed ==
    \A l \in rate_limits : GrantedIn(l.limit_id, l.time_interval) <= l.limit

\* C15, amended: the weight granted on a bucket since it last replenished
\* never exceeds its capacity, and the weight granted within any interval as
\* long as its window never exceeds twice its capacity.
C15_WindowBound ==
    \A l \in rate_limits :
        /\ buckets[l.limit_id].current_usage <= l.limit
        /\ GrantedIn(l.limit_id, l.time_interval) <= 2 * l.limit

\* A bucket was used up, replenished and used up again within one interval.
C15_Witness ==
    \E l \in rate_limits :
        /\ l.time_interval > 1
        /\ buckets[l.limit_id].current_usage = l.limit
        /\ GrantedIn(l.limit_id, l.time_interval) = 2 * l.limit

Sequential == rate_limits = SequentialLimits

Sixth == SequentialCalls.calls

\* C16: of six sequential acquires on a bucket of capacity 5 and window 1,
\* none of the first five waits; the sixth does not complete while the
\* window that took five is open, only after a replenishment; and all six
\* complete in the end.
C16_SixthWaitsForReset ==
    /\ [](Sequential =>
            /\ \A k \in DOMAIN callers["a"].done :
                    k < Sixth => ~callers["a"].done[k]
            /\ Len(callers["a"].done) = Sixth => callers["a"].reset_seen)
    /\ [][ (Sequential /\ Len(callers["a"].done) = Sixth - 1
              /\ buckets["S"].current_usage = Sixth - 1
              /\ buckets["S"].elapsed = 0)
            => Len(callers'["a"].done) = Sixth - 1 ]_vars
    /\ (Sequential => <>(Len(callers["a"].done) = Sixth))

\* Six calls were made back to back: five at once, the sixth after waiting.
C16_Witness ==
    /\ Sequential
    /\ callers["a"].done = <<FALSE, FALSE, FALSE, FALSE, FALSE, TRUE>>
    /\ buckets["S"].current_usage = 1

AcquireStep ==
    \E c \in DOMAIN callers :
        \/ callers'[c].left # callers[c].left
        \/ callers'[c].want # callers[c].want

\* C17: an acquire either adds its weight to the usage of its own bucket and
\* each link's weight to the usage of every linked bucket, in one step, or
\* adds to none; it does the former exactly when all of them have capacity,
\* counting a bucket that is due as replenished, and otherwise (so when only
\* a linked bucket lacks capacity) changes no usage and leaves the caller
\* waiting.  Nothing else adds to a usage.
C17_LinkedAcquisitionAllOrNothing ==
    /\ [][ AcquireStep =>
            LET id == lastq'.limit_id
                c == lastq'.caller
                current == Current(rate_limits, buckets, id)
            IN  IF \A k \in Involved(rate_limits, id) :
                        current[k.limit_id].current_usage + k.weight
                            <= LimitOf(rate_limits, k.limit_id).limit
                    THEN /\ \A i \in DOMAIN buckets :
                                buckets'[i].current_usage =
                                    current[i].current_usage + WeightOn(rate_limits, id, i)
                         /\ callers'[c].left = callers[c].left - 1
                         /\ callers'[c].want = ""
                    ELSE /\ buckets' = buckets
                         /\ grants' = grants
                         /\ callers'[c].left = callers[c].left
                         /\ callers'[c].want = id ]_vars
    /\ [][ ~AcquireStep =>
            \A i \in DOMAIN buckets :
                buckets'[i].current_usage <= buckets[i].current_usage ]_vars

\* A caller waits for ORDER: its own bucket has capacity, the burst pool it
\* is linked to was replenished, the other pool is used up.
C17_Witness ==
    /\ rate_limits = RATE_LIMITS
    /\ lastq = [caller |-> "b", limit_id |-> "ORDER", result |-> "waits"]
    /\ callers["b"].want = "ORDER"
    /\ buckets["ORDER"].current_usage = 2
    /\ buckets["POST"].current_usage = 2
    /\ buckets["POST_BURST"].current_usage = 0

(***************************************************************************)
(* Properties of the venue order id.                                       *)
(***************************************************************************)
\* C21: once an order has its venue id no step changes it, whatever id a
\* push event, a status response, a cancel acknowledgment or a placement
\* response carries.
C21_ExchangeOrderIdImmutable ==
    [][ order.exchange_order_id # None =>
            order'.exchange_order_id = order.exchange_order_id ]_vars

\* A push event or a status response carrying another venue id was applied
\* (it moved the order's state) to an order that keeps the id it had.
C21_Witness ==
    /\ last.op \in {"push", "poll"}
    /\ last.result = "ok"
    /\ order.exchange_order_id = ToString(VenueOrderId)
    /\ Str(last.resp) = ToString(OtherOrderId)
    /\ order.current_state # last.pre

(***************************************************************************)
(* Properties of the status query.                                         *)
(***************************************************************************)
\* C23 as stated: a status query that fetches a fill indication,
\* PARTIALLY_FILLED or FILLED, for an order still PENDING_CREATE has made the
\* order OPEN when it returns its update.
C23_AsClaimed ==
    (/\ last.op = "poll"
     /\ last.result = "ok"
     /\ last.pre = "PENDING_CREATE"
     /\ last.X \in FillStatuses)
        => last.at_return = "OPEN"

\* C23, amended: a status query that fetches FILLED for an order still
\* PENDING_CREATE has made the order OPEN when it returns its update, and the
\* order ends FILLED; one that fetches PARTIALLY_FILLED returns with the order
\* still PENDING_CREATE, and the order goes to PARTIALLY_FILLED directly.  The
\* update returned never carries PENDING_CREATE.
C23_StatusImplicitOpenOnFilledOnly ==
    (last.op = "poll" /\ last.result = "ok")
        => /\ last.ret # <<"PENDING_CREATE">>
           /\ (last.pre = "PENDING_CREATE" /\ last.X \in FillStatuses)
                => /\ last.at_return = IF last.X = "FILLED" THEN "OPEN" ELSE "PENDING_CREATE"
                   /\ last.ret = <<ORDER_STATE[last.X]>>
                   /\ order.current_state = ORDER_STATE[last.X]

\* A status query has just fetched FILLED for an order that was
\* PENDING_CREATE.
C23_Witness ==
    /\ last.op = "poll"
    /\ last.result = "ok"
    /\ last.pre = "PENDING_CREATE"
    /\ last.X = "FILLED"
    /\ last.at_return = "OPEN"
    /\ order.current_state = "FILLED"

(***************************************************************************)
(* Properties of reports for orders that are not tracked.                  *)
(***************************************************************************)
\* C25: an executionReport whose client order id is in neither the
\* fill-tracking set nor the state-update set is ignored: the handler does not
\* raise, whatever the report carries or lacks, and the step changes no order
\* state, no fill ledger, no balance, and nothing else of the connector (no
\* request is made).
C25_UntrackedReportIgnored ==
    [][ (/\ last'.op = "push"
         /\ last' # last
         /\ ~(fillable /\ last'.C = order.client_order_id)
         /\ ~(updatable /\ last'.C = order.client_order_id))
        => /\ last'.result = "ignored"
           /\ order' = order
           /\ push_ids' = push_ids
           /\ rest_ids' = rest_ids
           /\ fillable' = fillable
           /\ updatable' = updatable
           /\ account_balances' = account_balances
           /\ account_available_balances' = account_available_balances ]_vars

\* A FILLED report for the order arrived after the order, canceled, had left
\* both sets, and was ignored.
C25_Witness ==
    /\ last.op = "push"
    /\ last.result = "ignored"
    /\ last.C = order.client_order_id
    /\ last.X = "FILLED"
    /\ ~fillable
    /\ ~updatable
    /\ order.current_state = "CANCELED"

(***************************************************************************)
(* Properties of the order of effects within one report.                   *)
(***************************************************************************)
\* C26: a fill report for an order in both sets, handled without error, that
\* changes the order's state has handed its trade to the tracker while the
\* order was still in the state before that change (or in the implicit
\* OPEN), and the trade is in the ledger when the step ends; so an order a
\* push event makes FILLED holds that event's fill.
C26_FillBeforeStatus ==
    [][ (/\ last'.op = "push"
         /\ last'.result = "ok"
         /\ last'.X \in FillStatuses
         /\ last'.C = order.client_order_id
         /\ fillable /\ updatable
         /\ order'.current_state # order.current_state)
        => /\ last'.trade_id # None
           /\ last'.trade_id \in DOMAIN order'.order_fills
           /\ last'.fill_state \in {order.current_state, "OPEN"}
           /\ last'.fill_state # order'.current_state ]_vars

\* A FILLED report has just made an OPEN order FILLED, and its trade, new to
\* the ledger, is in it.
C26_Witness ==
    /\ last.op = "push"
    /\ last.result = "ok"
    /\ last.X = "FILLED"
    /\ last.pre = "OPEN"
    /\ ~last.dup
    /\ last.fill_state = "OPEN"
    /\ order.current_state = "FILLED"
    /\ last.trade_id \in DOMAIN order.order_fills

(***************************************************************************)
(* Properties of the decoder.                                              *)
(***************************************************************************)
CarriesJson(message) == message.json

\* C24 as stated: a frame that carries a JSON document, as a gzip stream, as
\* UTF-8 bytes or as text, decodes to the record of that document.
C24_AsClaimed ==
    (arrived > 0 /\ CarriesJson(lastf))
        => /\ ~decoded.raised
           /\ decoded.parsed
           /\ decoded.value = lastf.event

\* C24, amended: bytes that carry a JSON document decode to the record of
\* that document whether they are a gzip stream of the text or the text
\* itself, the gzip stream being tried first; bytes that carry none raise; a
\* message that is not bytes is returned as it is, so a document delivered as
\* a str comes back as that text, not as its record.
C24_BytesDecodeAlike ==
    arrived > 0 =>
        IF lastf.bytes
            THEN IF CarriesJson(lastf)
                    THEN /\ ~decoded.raised
                         /\ decoded.parsed
                         /\ decoded.value = lastf.event
                    ELSE decoded.raised
            ELSE /\ ~decoded.raised
                 /\ decoded.value = lastf.event
                 /\ decoded.parsed = ~CarriesJson(lastf)

\* The UTF-8 bytes of an execution report, no gzip stream, were decoded to
\* the report's record.
C24_Witness ==
    /\ arrived > 0
    /\ lastf.bytes /\ ~lastf.gzip /\ lastf.json
    /\ lastf.event.e = "executionReport"
    /\ decoded = [raised |-> FALSE, value |-> lastf.event, parsed |-> TRUE]

(***************************************************************************)
(* Properties of events that raise, and of overlapping balance operations. *)
(***************************************************************************)
\* C27 as stated: an event whose handling raises leaves the order, its fill
\* ledger and the balances exactly as they were before the event.
C27_AsClaimed ==
    [][ (Len(outcomes') = Len(outcomes) + 1 /\ logged' = logged + 1)
        => /\ order' = order
           /\ account_balances' = account_balances
           /\ account_available_balances' = account_available_balances ]_vars

\* C28 as stated: a resync during whose request a push balance event was
\* applied leaves, when it completes, no asset that its response lacks.
C28_AsClaimed ==
    [][ \A p \in DOMAIN resync :
            (/\ resync[p].pc = "await"
             /\ lastb.op = "push" /\ ~lastb.raised /\ lastb.entries # <<>>
             /\ resync'[p].pc = "idle"
             /\ lastb'.op = "resync" /\ ~lastb'.raised)
            => /\ DOMAIN account_balances' \subseteq ListedAssets(lastb'.entries)
               /\ DOMAIN account_available_balances' \subseteq ListedAssets(lastb'.entries) ]_vars

\* C29 as stated: a resync whose request overlapped with another's completes
\* without raising, and leaves both maps with the assets of its response.
C29_AsClaimed ==
    [][ \A p \in DOMAIN resync :
            (/\ resync[p].pc = "await"
             /\ resync[p].overlapped
             /\ resync'[p].pc = "idle"
             /\ lastb'.op = "resync")
            => /\ ~lastb'.raised
               /\ DOMAIN account_balances' = ListedAssets(lastb'.entries)
               /\ DOMAIN account_available_balances' = ListedAssets(lastb'.entries) ]_vars

\* The configured table: every call names an endpoint whose weight fits its
\* own bucket and whose linked weights fit the three pool buckets.
Configured == rate_limits = RATE_LIMITS

FitsCapacity(table, id) ==
    \A k \in Involved(table, id) : k.weight <= LimitOf(table, k.limit_id).limit

\* Caller c waits on acquire(id), a call that fits the capacities; and c has
\* just been granted it.
WaitsWithinCapacity(c, id) ==
    IF c \in DOMAIN callers /\ id \in Endpoints(rate_limits)
        THEN callers[c].want = id /\ FitsCapacity(rate_limits, id)
        ELSE FALSE

Granted(c, id) ==
    IF c \in DOMAIN callers
        THEN /\ callers[c].want = ""
             /\ lastq = [caller |-> c, limit_id |-> id, result |-> "granted"]
        ELSE FALSE

PollSuspended == \E p \in Pollers : resync[p].pc \in {"throttle", "await"}

ListenerSuspended ==
    \/ listener = "waiting" /\ inbox = <<>>
    \/ listener = "backoff"

\* C22: the listener and the polls never block each other.  While a poll
\* waits for capacity or for its response, the listener can take a queued
\* event and can end its pause, and every queued event is consumed in the
\* end; while the listener waits for an event or pauses, a poll with
\* capacity can send its request and a poll whose request is sent can
\* return, and every poll under way returns in the end.
C22_NeitherBlocksTheOther ==
    /\ [](PollSuspended /\ listener = "waiting" /\ inbox # <<>>
            => ENABLED ListenerTake)
    /\ [](PollSuspended /\ listener = "backoff" => ENABLED ListenerWake)
    /\ [](\A p \in Pollers :
            (/\ ListenerSuspended
             /\ resync[p].pc = "throttle"
             /\ \E id \in Endpoints(rate_limits) :
                    WithinCapacity(rate_limits, Current(rate_limits, buckets, id), id))
            => ENABLED ApiRequest(p))
    /\ [](\A p \in Pollers :
            (ListenerSuspended /\ resync[p].pc = "await")
            => ENABLED (UpdateBalancesEndWith(p, PolledBalances) \/ UpdateBalancesFail(p)))
    /\ (inbox # <<>>) ~> (inbox = <<>>)
    /\ PollSuspended ~> ~PollSuspended

\* Polls have returned with balances, the next one waits for capacity that
\* the window does not have, and the listener, having consumed events,
\* pauses after one that failed.
C22_Witness ==
    /\ \E p \in Pollers :
            /\ resync[p].pc = "throttle"
            /\ \A id \in Endpoints(rate_limits) :
                    ~WithinCapacity(rate_limits, Current(rate_limits, buckets, id), id)
    /\ listener = "backoff"
    /\ outcomes # <<>>
    /\ account_balances # EmptyMap
====
